---- MODULE Spec2Model ----
(***************************************************************************)
(* The long-term memory engine of LEO (src/src/leo/memory/long_term.py):   *)
(* the long_term_memories table, the memory_events table, and the          *)
(* operations of LongTermMemoryStore on them.                              *)
(*                                                                         *)
(* Numbers.  Time is counted in clock ticks, TicksPerSec ticks to the      *)
(* second: datetime.utcnow() reads the clock at tick resolution, SQLite's  *)
(* CURRENT_TIMESTAMP stores whole seconds.  Importance is a fixed-point    *)
(* number, ImpOne units to 1.0; ImpOne is chosen so that the decay of one  *)
(* tick is a whole number of units and every importance the code computes  *)
(* is exact.  An embedding is a pair of integers; cosine similarity is     *)
(* compared with the threshold in squared, cross-multiplied form.          *)
(***************************************************************************)
EXTENDS Integers, Sequences, FiniteSets, TLC

\* ------------------------------------------------------------------ bounds
MaxEntries == 3
DecayEntries == 2
MaxAdvance == 2
MaxDecay == 3
PruneAdvance == 1
MaxFailures == 1
MaxCap == 2
MaxLimit == 2
TicksPerSec == 2

\* ------------------------------------------------------- program constants
SecondsPerDay == 86400
DecayNum == 1
DecayDen == 100
ThresholdNum == 95
ThresholdDen == 100
None == 0

ImpOne == DecayDen * SecondsPerDay * TicksPerSec
DayTicks == SecondsPerDay * TicksPerSec

UserIds == {"u1"}
OwnerTypes == {"user", "assistant"}
TagOrder == <<"preference", "project">>
Tags == {TagOrder[k] : k \in 1..Len(TagOrder)}

VARIABLES
    memories,             \* table long_term_memories: id -> row
    events,               \* table memory_events, in insertion order
    nextId,               \* the next id the store assigns
    now,                  \* the clock, in ticks
    advances,             \* how often the clock has been advanced
    decays,               \* how often decay_importance has been called
    failures,             \* how many store operations have failed
    total_cap_user,       \* LongTermMemoryStore.total_cap_user
    total_cap_assistant,  \* LongTermMemoryStore.total_cap_assistant
    per_tag_caps,         \* LongTermMemoryStore.per_tag_caps
    prune,                \* the prune_caps call in flight: its position and locals
    merge,                \* the merge_redundant call in flight: its position and locals
    lastOp,               \* the last call made or returned
    episode,              \* of the passes in flight since both were last idle:
                          \* whether they have overlapped, the length of the
                          \* event log when the first began, the ids each
                          \* has named in a DELETE, and the ids a failed call
                          \* right before had logged and not deleted
    embedded,             \* of the last add_memory call: its embedding
                          \* argument and what the Embedding Provider did:
                          \* "no" call, "returned" or "raised"
    found,                \* the last search call: its arguments and result
    chat,                 \* the chat turn in flight: its position and outcome
    idsArg                \* the ids passed to the last direct call of
                          \* update_last_used or _delete_ids

vars == <<memories, events, nextId, now, advances, decays, failures, total_cap_user,
          total_cap_assistant, per_tag_caps, prune, merge, lastOp, episode,
          embedded, found, chat, idsArg>>

config == <<total_cap_user, total_cap_assistant, per_tag_caps>>

counters == <<advances, decays, failures>>

\* What only add_memory, search and the chat turn write.
callers == <<embedded, found, chat, idsArg>>

\* ---------------------------------------------------------------- helpers
Max(a, b) == IF a >= b THEN a ELSE b

Range(s) == {s[k] : k \in 1..Len(s)}

\* An importance given in tenths.
Imp(tenths) == (tenths * ImpOne) \div 10

\* SQLite's CURRENT_TIMESTAMP: the clock cut to whole seconds.
CurrentTimestamp(t) == t \div TicksPerSec

\* _parse_ts of a stored timestamp: the instant, in ticks.
ParseTs(seconds) == seconds * TicksPerSec

PartitionOfOwner(mem, u, o) == {id \in DOMAIN mem : mem[id].owner_type = o}

\* WHERE user_id = ? AND owner_type = ?
Partition(mem, u, o) ==
    {id \in DOMAIN mem : mem[id].user_id = u /\ mem[id].owner_type = o}

NewIdAfterLargest ==
    IF DOMAIN memories = {} THEN 1
    ELSE 1 + CHOOSE id \in DOMAIN memories : \A other \in DOMAIN memories : other <= id

\* The id the store assigns to a new row.
NewId == nextId

\* The columns the INSERT leaves to the schema's defaults.
DefaultTimestamp == CurrentTimestamp(now)

NoCall == [op |-> "none", owner |-> "", repeat |-> FALSE]

\* The record of a call of op on partition o: repeat tells that the call
\* follows a returned call of the same operation on the same partition with
\* nothing in between.
Call(op, ret, o) ==
    [op |-> op, owner |-> o, repeat |-> lastOp.op = ret /\ lastOp.owner = o]
IdlePrune == [pc |-> "idle", user |-> "", idx |-> 0, to_drop |-> <<>>]
IdleMerge == [pc |-> "idle", user |-> "", owner |-> "", memories |-> <<>>,
              i |-> 0, j |-> 0, to_delete |-> {}]
NoSearch == [user |-> "", owner |-> "", query |-> <<0, 0>>, limit |-> 0,
             ids |-> <<>>, repeat |-> FALSE]
NoTurn == [pc |-> "idle", query |-> <<0, 0>>, ltm |-> FALSE, cause |-> ""]
NoEpisode == [raced |-> FALSE, ev0 |-> 0, pruned |-> {}, merged |-> {},
              orphans |-> {}]

\* What a call of a pass finds when the call before it, with nothing in
\* between, was the same pass on partition o and raised: the ids that the
\* failed call's events name as dropped and that are still stored.
Orphans(raised, o) ==
    IF lastOp.op = raised /\ lastOp.owner = o
    THEN UNION {Range(events[k].dropped) : k \in (episode.ev0 + 1)..Len(events)}
            \cap DOMAIN memories
    ELSE {}

Idle == prune.pc = "idle" /\ merge.pc = "idle"

\* ------------------------------------------------------------- add_memory
\* The embedding argument of add_memory: absent (None) or a vector.
NoEmbedding == [given |-> FALSE, vec |-> <<>>]
Given(vec) == [given |-> TRUE, vec |-> vec]

\* The arguments of add_memory that no operation of the store reads again:
\* the text of the fact, the plasticity (0.5 unless the caller passes one)
\* and the metadata (None unless the caller passes some).
Content == "fact"
Plasticity == Imp(5)

AddMemory(u, o, emb, tags, importance) ==
    /\ Idle
    /\ nextId <= MaxEntries
    /\ memories' = memories @@ (NewId :>
          [user_id |-> u, owner_type |-> o, content |-> Content,
           embedding |-> emb, tags |-> tags, importance |-> importance,
           plasticity |-> Plasticity, metadata |-> None,
           created_at |-> DefaultTimestamp, last_used_at |-> DefaultTimestamp])
    /\ nextId' = nextId + 1
    /\ lastOp' = Call("add_memory", "", "")
    /\ embedded' = [arg |-> Given(emb), provider |-> "no"]
    /\ UNCHANGED <<events, now, counters, config, found, chat, idsArg, prune, merge, episode>>

\* `embedding or ...`: None and the empty list are both false.
Falsy(embedding) == ~embedding.given \/ Len(embedding.vec) = 0

\* What EmbeddingClient.embed may do: raise EmbeddingError or return a vector.
EmbedReplies == {[ok |-> FALSE, vec |-> <<>>], [ok |-> TRUE, vec |-> <<3, 4>>]}

AbortsNever(embedding, reply) == FALSE

\* self.embed_text(content) is called and raises: the exception leaves
\* add_memory before the INSERT.
Aborts(embedding, reply) == Falsy(embedding) /\ ~reply.ok

\* add_memory with its embedding argument:
\* emb = embedding or self.embed_text(content), then the INSERT.
AddMemoryEmbed(u, o, embedding, tags, importance) ==
    /\ Idle
    /\ nextId <= MaxEntries
    /\ \E reply \in IF Falsy(embedding) THEN EmbedReplies
                    ELSE {[ok |-> TRUE, vec |-> embedding.vec]} :
          /\ embedded' = [arg |-> embedding,
                          provider |-> IF ~Falsy(embedding) THEN "no"
                                       ELSE IF reply.ok THEN "returned"
                                       ELSE "raised"]
          /\ IF Aborts(embedding, reply)
             THEN /\ lastOp' = Call("add_memory:raised", "", "")
                  /\ UNCHANGED <<memories, nextId>>
             ELSE /\ memories' = memories @@ (NewId :>
                        [user_id |-> u, owner_type |-> o, content |-> Content,
                         embedding |-> reply.vec, tags |-> tags,
                         importance |-> importance, plasticity |-> Plasticity,
                         metadata |-> None, created_at |-> DefaultTimestamp,
                         last_used_at |-> DefaultTimestamp])
                  /\ nextId' = nextId + 1
                  /\ lastOp' = Call("add_memory", "", "")
    /\ UNCHANGED <<events, now, counters, config, found, chat, idsArg, prune, merge, episode>>

\* ------------------------------------------------------------- the clock
Advance(d) ==
    /\ Idle
    /\ advances < MaxAdvance
    /\ now' = now + d
    /\ advances' = advances + 1
    /\ lastOp' = Call("advance", "", "")
    /\ UNCHANGED <<memories, events, nextId, decays, failures, config, callers, prune, merge, episode>>

\* ------------------------------------------------------- decay_importance
\* days = max(0.0, (now - last_used).total_seconds() / 86400.0), in ticks.
ElapsedTicks(t, last_used_at) == Max(0, t - ParseTs(last_used_at))

\* self.decay_per_day for one tick, in units of importance: a whole number
\* by the choice of ImpOne.
DecayPerTick == (DecayNum * ImpOne) \div (DecayDen * DayTicks)

\* decayed = max(0.0, importance - self.decay_per_day * days)
Decayed(importance, ticks) == Max(0, importance - DecayPerTick * ticks)

DecayRowAlwaysTouches(row, t) ==
    [row EXCEPT !.importance = Decayed(row.importance, ElapsedTicks(t, row.last_used_at)),
                !.last_used_at = CurrentTimestamp(t)]

\* One row of the loop: the UPDATE of importance and last_used_at, appended
\* only if decayed != importance.
DecayRow(row, t) ==
    LET decayed == Decayed(row.importance, ElapsedTicks(t, row.last_used_at))
    IN  IF decayed # row.importance
        THEN [row EXCEPT !.importance = decayed,
                         !.last_used_at = CurrentTimestamp(t)]
        ELSE row

DecayImportanceDropsFaded(u, o) ==
    /\ Idle
    /\ decays < MaxDecay
    /\ decays' = decays + 1
    /\ memories' = [id \in {k \in DOMAIN memories :
                               \/ k \notin Partition(memories, u, o)
                               \/ 2 * DecayRow(memories[k], now).importance >= ImpOne} |->
                       IF id \in Partition(memories, u, o)
                       THEN DecayRow(memories[id], now)
                       ELSE memories[id]]
    /\ lastOp' = Call("decay_importance", "decay_importance", o)
    /\ UNCHANGED <<events, nextId, now, advances, failures, config, callers, prune, merge, episode>>

\* decay_importance: the SELECT of the partition, the loop over its rows
\* and the UPDATEs.
DecayImportance(u, o) ==
    /\ Idle
    /\ decays < MaxDecay
    /\ decays' = decays + 1
    /\ memories' = [id \in DOMAIN memories |->
                       IF id \in Partition(memories, u, o)
                       THEN DecayRow(memories[id], now)
                       ELSE memories[id]]
    /\ lastOp' = Call("decay_importance", "decay_importance", o)
    /\ UNCHANGED <<events, nextId, now, advances, failures, config, callers, prune, merge, episode>>

\* -------------------------------------------------------------- the store
\* _log_event: one row appended to memory_events.
Event(u, o, memory_id, event_type, dropped, tag, similarity) ==
    [user_id |-> u, owner_type |-> o, memory_id |-> memory_id,
     event_type |-> event_type, dropped |-> dropped, tag |-> tag,
     similarity |-> similarity]

LogEventOverwrites(log, e) ==
    IF log = <<>> THEN <<e>> ELSE [log EXCEPT ![Len(log)] = e]

\* INSERT INTO memory_events
LogEvent(log, e) == Append(log, e)

DeleteIdsAllOrNothing(mem, ids) ==
    IF ids \subseteq DOMAIN mem THEN [id \in DOMAIN mem \ ids |-> mem[id]] ELSE mem

\* _delete_ids: DELETE ... WHERE id IN (ids); ids no longer stored are ignored.
DeleteIds(mem, ids) == [id \in DOMAIN mem \ ids |-> mem[id]]

\* Every order in which a SELECT may return the rows of S.
Listings(S) ==
    {s \in [1..Cardinality(S) -> S] :
        \A a, b \in 1..Cardinality(S) : a # b => s[a] # s[b]}

KeyLEImportanceOnly(mem, a, b) == mem[a].importance <= mem[b].importance

\* ORDER BY importance ASC, last_used_at ASC
KeyLE(mem, a, b) ==
    \/ mem[a].importance < mem[b].importance
    \/ /\ mem[a].importance = mem[b].importance
       /\ mem[a].last_used_at <= mem[b].last_used_at

\* The results the ordered SELECT may return for S: rows that tie on the key
\* come in any order.
SortedRows(mem, S) ==
    {s \in Listings(S) :
        \A a, b \in 1..Cardinality(S) : a < b => KeyLE(mem, s[a], s[b])}

\* -------------------------------------------------------------- prune_caps
\* The cap checks of one prune_caps call, in the order the code makes them.
Checks ==
    <<[kind |-> "total", owner |-> "user", tag |-> ""],
      [kind |-> "total", owner |-> "assistant", tag |-> ""]>>
    \o [k \in 1..(2 * Len(TagOrder)) |->
          [kind |-> "tag",
           owner |-> IF k % 2 = 1 THEN "user" ELSE "assistant",
           tag |-> TagOrder[(k + 1) \div 2]]]

CheckCap(c) ==
    IF c.kind = "total"
    THEN IF c.owner = "user" THEN total_cap_user ELSE total_cap_assistant
    ELSE per_tag_caps[c.tag]

\* The rows a check counts: the partition, or its rows carrying the tag.
Checked(mem, rows, c) ==
    LET HasTag(id) == c.tag \in mem[id].tags
    IN  IF c.kind = "total" THEN rows ELSE SelectSeq(rows, HasTag)

ToDropOneLess(checked, cap) == SubSeq(checked, 1, Len(checked) - cap - 1)

\* to_drop = [row["id"] for row in rows[:excess]]
ToDrop(checked, cap) == SubSeq(checked, 1, Len(checked) - cap)

\* The call after a check is over: the next check, or the return.
AfterCheck(p) ==
    IF p.idx = Len(Checks)
    THEN IdlePrune
    ELSE [p EXCEPT !.pc = "query", !.idx = @ + 1, !.to_drop = <<>>]

Returned(p, op) ==
    lastOp' = IF p.pc = "idle" THEN [lastOp EXCEPT !.op = op] ELSE lastOp

PruneCaps(u) ==
    /\ prune.pc = "idle"
    /\ prune' = [pc |-> "query", user |-> u, idx |-> 1, to_drop |-> <<>>]
    /\ lastOp' = Call("prune_caps:call", "prune_caps", "")
    /\ episode' = IF merge.pc = "idle"
                  THEN [NoEpisode EXCEPT
                          !.ev0 = Len(events),
                          !.orphans = Orphans("prune_caps:raised", "")]
                  ELSE [episode EXCEPT !.raced = TRUE]
    /\ UNCHANGED <<memories, events, nextId, now, counters, config, callers, merge>>

PruneQueryEvictsAtCap ==
    /\ prune.pc = "query"
    /\ LET c == Checks[prune.idx]
       IN  \E rows \in SortedRows(memories, Partition(memories, prune.user, c.owner)) :
              LET checked == Checked(memories, rows, c)
              IN  prune' = IF Len(checked) < CheckCap(c)
                           THEN AfterCheck(prune)
                           ELSE [prune EXCEPT !.pc = "log",
                                              !.to_drop = ToDrop(checked, CheckCap(c))]
    /\ Returned(prune', "prune_caps")
    /\ UNCHANGED <<memories, events, nextId, now, counters, config, callers, merge, episode>>

\* _prune_total / _prune_tag: the SELECT and the choice of to_drop.
PruneQuery ==
    /\ prune.pc = "query"
    /\ LET c == Checks[prune.idx]
       IN  \E rows \in SortedRows(memories, Partition(memories, prune.user, c.owner)) :
              LET checked == Checked(memories, rows, c)
              IN  prune' = IF Len(checked) <= CheckCap(c)
                           THEN AfterCheck(prune)
                           ELSE [prune EXCEPT !.pc = "log",
                                              !.to_drop = ToDrop(checked, CheckCap(c))]
    /\ Returned(prune', "prune_caps")
    /\ UNCHANGED <<memories, events, nextId, now, counters, config, callers, merge, episode>>

PruneLogDeletesFirst ==
    /\ prune.pc = "log"
    /\ memories' = DeleteIds(memories, Range(prune.to_drop))
    /\ prune' = [prune EXCEPT !.pc = "delete"]
    /\ UNCHANGED <<events, nextId, now, counters, config, callers, merge, lastOp, episode>>

\* _prune_total / _prune_tag: the _log_event call.
PruneLog ==
    /\ prune.pc = "log"
    /\ LET c == Checks[prune.idx]
       IN  events' = LogEvent(events,
              Event(prune.user, c.owner, None,
                    IF c.kind = "total" THEN "prune_total" ELSE "prune_tag",
                    prune.to_drop, c.tag, <<0, 0>>))
    /\ prune' = [prune EXCEPT !.pc = "delete"]
    /\ UNCHANGED <<memories, nextId, now, counters, config, callers, merge, lastOp, episode>>

\* _prune_total / _prune_tag: the _delete_ids call.
PruneDelete ==
    /\ prune.pc = "delete"
    /\ memories' = DeleteIds(memories, Range(prune.to_drop))
    /\ prune' = AfterCheck(prune)
    /\ Returned(prune', "prune_caps")
    /\ episode' = [episode EXCEPT !.pruned = @ \cup Range(prune.to_drop)]
    /\ UNCHANGED <<events, nextId, now, counters, config, callers, merge>>

\* A storage failure in the next store operation of the call: the exception
\* leaves prune_caps, which has no handler.
PruneFail ==
    /\ prune.pc \in {"query", "log", "delete"}
    /\ failures < MaxFailures
    /\ failures' = failures + 1
    /\ prune' = IdlePrune
    /\ lastOp' = [lastOp EXCEPT !.op = "prune_caps:raised"]
    /\ UNCHANGED <<memories, events, nextId, now, advances, decays, config, callers, merge, episode>>

\* --------------------------------------------------------- merge_redundant
Dot(a, b) == a[1] * b[1] + a[2] * b[2]

\* np.linalg.norm(e), squared.
Norm2(a) == Dot(a, a)

\* denom == 0, for denom = norms[i] * norms[j]
DenomZero(a, b) == Norm2(a) * Norm2(b) = 0

\* sim = dot / denom, kept exact as <<dot, denom squared>>.
Sim(a, b) == <<Dot(a, b), Norm2(a) * Norm2(b)>>

\* sim >= self.similarity_merge_threshold, for a denom that is not 0.
SimGE(a, b) ==
    /\ Dot(a, b) >= 0
    /\ ThresholdDen * ThresholdDen * Dot(a, b) * Dot(a, b)
          >= ThresholdNum * ThresholdNum * Norm2(a) * Norm2(b)

\* _row_to_entry: the fields of a MemoryEntry that merge_redundant reads.
RowToEntry(mem, id) ==
    [id |-> id, embedding |-> mem[id].embedding, importance |-> mem[id].importance]

KeepLater(mi, mj) == IF mi.importance > mj.importance THEN mi ELSE mj

\* keep, drop = (mi, mj) if mi.importance >= mj.importance else (mj, mi)
Keep(mi, mj) == IF mi.importance >= mj.importance THEN mi ELSE mj
Drop(mi, mj) == IF mi.importance >= mj.importance THEN mj ELSE mi

\* The loops over i and j, from position (i, j) to the next pair the code
\* takes a merge decision for, if any.  (i, i + 1) is the start of the outer
\* loop's iteration i, where alone the code tests whether mi is marked.
RECURSIVE Scan(_, _, _, _)
Scan(ms, i, j, td) ==
    IF i > Len(ms) THEN [found |-> FALSE, i |-> i, j |-> j]
    ELSE IF j = i + 1 /\ ms[i].id \in td THEN Scan(ms, i + 1, i + 2, td)
    ELSE IF j > Len(ms) THEN Scan(ms, i + 1, i + 2, td)
    ELSE IF \/ ms[j].id \in td
            \/ DenomZero(ms[i].embedding, ms[j].embedding)
            \/ ~SimGE(ms[i].embedding, ms[j].embedding)
         THEN Scan(ms, i, j + 1, td)
    ELSE [found |-> TRUE, i |-> i, j |-> j]

MergeRedundant(u, o) ==
    /\ merge.pc = "idle"
    /\ merge' = [IdleMerge EXCEPT !.pc = "list", !.user = u, !.owner = o]
    /\ lastOp' = Call("merge_redundant:call", "merge_redundant", o)
    /\ episode' = IF prune.pc = "idle"
                  THEN [NoEpisode EXCEPT
                          !.ev0 = Len(events),
                          !.orphans = Orphans("merge_redundant:raised", o)]
                  ELSE [episode EXCEPT !.raced = TRUE]
    /\ UNCHANGED <<memories, events, nextId, now, counters, config, callers, prune>>

\* memories = self.list_all(user_id, owner_type), and the return on fewer
\* than two.
MergeList ==
    /\ merge.pc = "list"
    /\ \E rows \in Listings(Partition(memories, merge.user, merge.owner)) :
          merge' = IF Len(rows) < 2
                   THEN IdleMerge
                   ELSE [merge EXCEPT
                           !.pc = "scan",
                           !.memories = [k \in 1..Len(rows) |->
                                            RowToEntry(memories, rows[k])],
                           !.i = 1, !.j = 2]
    /\ Returned(merge', "merge_redundant")
    /\ UNCHANGED <<memories, events, nextId, now, counters, config, callers, prune, episode>>

MergeLogThenBreak ==
    /\ merge.pc = "scan"
    /\ LET d == Scan(merge.memories, merge.i, merge.j, merge.to_delete)
           mi == merge.memories[d.i]
           mj == merge.memories[d.j]
       IN  /\ d.found
           /\ events' = LogEvent(events,
                  Event(merge.user, merge.owner, Keep(mi, mj).id, "merged",
                        <<Drop(mi, mj).id>>, "", Sim(mi.embedding, mj.embedding)))
           /\ merge' = [merge EXCEPT !.i = d.i + 1, !.j = d.i + 2,
                                     !.to_delete = @ \cup {Drop(mi, mj).id}]
    /\ UNCHANGED <<memories, nextId, now, counters, config, callers, prune, lastOp, episode>>

\* The scan up to the next merge decision, and its _log_event call.
MergeLog ==
    /\ merge.pc = "scan"
    /\ LET d == Scan(merge.memories, merge.i, merge.j, merge.to_delete)
           mi == merge.memories[d.i]
           mj == merge.memories[d.j]
       IN  /\ d.found
           /\ events' = LogEvent(events,
                  Event(merge.user, merge.owner, Keep(mi, mj).id, "merged",
                        <<Drop(mi, mj).id>>, "", Sim(mi.embedding, mj.embedding)))
           /\ merge' = [merge EXCEPT !.i = d.i, !.j = d.j + 1,
                                     !.to_delete = @ \cup {Drop(mi, mj).id}]
    /\ UNCHANGED <<memories, nextId, now, counters, config, callers, prune, lastOp, episode>>

\* The rest of the scan when it takes no further decision, the _delete_ids
\* call if anything is marked, and the return.
MergeDelete ==
    /\ merge.pc = "scan"
    /\ ~Scan(merge.memories, merge.i, merge.j, merge.to_delete).found
    /\ memories' = DeleteIds(memories, merge.to_delete)
    /\ merge' = IdleMerge
    /\ Returned(merge', "merge_redundant")
    /\ episode' = [episode EXCEPT !.merged = @ \cup merge.to_delete]
    /\ UNCHANGED <<events, nextId, now, counters, config, callers, prune>>

\* A storage failure in the next store operation of the call: the exception
\* leaves merge_redundant.
MergeFail ==
    /\ \/ merge.pc = "list"
       \/ /\ merge.pc = "scan"
          /\ \/ Scan(merge.memories, merge.i, merge.j, merge.to_delete).found
             \/ merge.to_delete # {}
    /\ failures < MaxFailures
    /\ failures' = failures + 1
    /\ merge' = IdleMerge
    /\ lastOp' = [lastOp EXCEPT !.op = "merge_redundant:raised"]
    /\ UNCHANGED <<memories, events, nextId, now, advances, decays, config, callers, prune, episode>>

\* ------------------------------------------------------------------ search
UpdateLastUsedOfAll(mem, ids, t) ==
    IF ids = {} THEN mem
    ELSE [id \in DOMAIN mem |->
             [mem[id] EXCEPT !.last_used_at = CurrentTimestamp(t)]]

\* update_last_used: one UPDATE ... SET last_used_at=CURRENT_TIMESTAMP WHERE
\* id IN (ids), and no statement at all for an empty list.
UpdateLastUsed(mem, ids, t) ==
    IF ids = {} THEN mem
    ELSE [id \in DOMAIN mem |->
             IF id \in ids
             THEN [mem[id] EXCEPT !.last_used_at = CurrentTimestamp(t)]
             ELSE mem[id]]

\* boost = 1.0 + entry.importance, in tenths; exact for an importance that is
\* a whole number of tenths.
BoostUnit == ImpOne \div 10

BoostWithoutImportance(importance) == ImpOne \div BoostUnit

Boost(importance) == (ImpOne + importance) \div BoostUnit

\* sim * boost without the division by denom: dot(q, emb) * boost.
ScoreNum(q, row) == Dot(q, row.embedding) * Boost(row.importance)

\* score(a) >= score(b) for rows of non-zero norm, where score = sim * boost
\* and sim = dot / (norm(q) * norm(emb)): the common factor norm(q) is
\* dropped and the two sides are compared squared, by sign.
ScoreGE(q, a, b) ==
    LET na == ScoreNum(q, a)
        nb == ScoreNum(q, b)
        da == Norm2(a.embedding)
        db == Norm2(b.embedding)
    IN  IF na >= 0 /\ nb < 0 THEN TRUE
        ELSE IF na < 0 /\ nb >= 0 THEN FALSE
        ELSE IF na >= 0 THEN na * na * db >= nb * nb * da
        ELSE na * na * db <= nb * nb * da

InsertAscending(mem, q, sorted, id) ==
    LET k == Cardinality({n \in 1..Len(sorted) :
                             ScoreGE(q, mem[id], mem[sorted[n]])})
    IN  SubSeq(sorted, 1, k) \o <<id>> \o SubSeq(sorted, k + 1, Len(sorted))

\* One step of scored.sort(key=score, reverse=True): id goes behind every
\* entry whose score is at least its own, so that entries of equal score
\* keep the order they were listed in.
Insert(mem, q, sorted, id) ==
    LET k == Cardinality({n \in 1..Len(sorted) :
                             ScoreGE(q, mem[sorted[n]], mem[id])})
    IN  SubSeq(sorted, 1, k) \o <<id>> \o SubSeq(sorted, k + 1, Len(sorted))

RECURSIVE Sort(_, _, _)
Sort(mem, q, scored) ==
    IF scored = <<>> THEN <<>>
    ELSE Insert(mem, q, Sort(mem, q, SubSeq(scored, 1, Len(scored) - 1)),
                scored[Len(scored)])

\* scored[:limit], for a limit that is not negative.
Take(s, limit) == SubSeq(s, 1, IF limit < Len(s) THEN limit ELSE Len(s))

ResultsKeepsZeros(mem, candidates, q, limit) ==
    IF candidates = <<>> THEN <<>>
    ELSE IF Norm2(q) = 0 THEN <<>>
    ELSE Take(Sort(mem, q, candidates), limit)

\* The entries search returns for the listing candidates of the partition.
Results(mem, candidates, q, limit) ==
    IF candidates = <<>> THEN <<>>
    ELSE IF Norm2(q) = 0 THEN <<>>
    ELSE LET scored == SelectSeq(candidates,
                          LAMBDA id : Norm2(mem[id].embedding) # 0)
         IN  Take(Sort(mem, q, scored), limit)

\* search: list_all, the ranking, and update_last_used on what is returned.
Search(u, o, q, limit) ==
    /\ Idle
    /\ \E results \in {Results(memories, candidates, q, limit) :
                         candidates \in Listings(Partition(memories, u, o))} :
              /\ memories' = UpdateLastUsed(memories, Range(results), now)
              /\ found' = [user |-> u, owner |-> o, query |-> q,
                           limit |-> limit, ids |-> results,
                           repeat |-> /\ lastOp.op = "search"
                                      /\ found.user = u /\ found.owner = o
                                      /\ found.query = q /\ found.limit = limit]
    /\ lastOp' = Call("search", "search", o)
    /\ UNCHANGED <<events, nextId, now, counters, config, embedded, chat,
                   idsArg, prune, merge, episode>>

\* ------------------------------------ update_last_used, _delete_ids alone
\* A call of update_last_used with the id list ids.
UpdateLastUsedCall(ids) ==
    /\ Idle
    /\ memories' = UpdateLastUsed(memories, ids, now)
    /\ idsArg' = ids
    /\ lastOp' = Call("update_last_used", "update_last_used", "")
    /\ UNCHANGED <<events, nextId, now, counters, config, embedded, found,
                   chat, prune, merge, episode>>

\* A call of _delete_ids with the id list ids.
DeleteIdsCall(ids) ==
    /\ Idle
    /\ memories' = DeleteIds(memories, ids)
    /\ idsArg' = ids
    /\ lastOp' = Call("_delete_ids", "_delete_ids", "")
    /\ UNCHANGED <<events, nextId, now, counters, config, embedded, found,
                   chat, prune, merge, episode>>

\* ----------------------------------------------------------- chat_endpoint
\* (src/src/leo/orchestrator/service.py)  The turn is a process: chat.pc is
\* the call of the long-term memory store it has come to; the call itself is
\* a step of the store, made while lastOp.op = "chat", and the turn goes on
\* from what the call has left in lastOp.
UserLimit == 6
AssistantLimit == 4
ExtractedImportance == 6

\* A storage failure in a call that is a single step of the store: the
\* sqlite3 error leaves the operation, and the store is as it was.
Fail(op) ==
    /\ Idle
    /\ failures < MaxFailures
    /\ failures' = failures + 1
    /\ lastOp' = Call(op, "", "")
    /\ UNCHANGED <<memories, events, nextId, now, advances, decays, config,
                   callers, prune, merge, episode>>

\* The calls that have raised, and the calls that have ended.
Raised == {"decay_importance:raised", "prune_caps:raised", "search:raised",
           "add_memory:raised", "merge_redundant:raised"}
Ended == Raised \cup {"decay_importance", "prune_caps", "search",
                       "add_memory", "merge_redundant"}

\* A step of the turn itself.
Turn(next) ==
    /\ chat' = next
    /\ lastOp' = Call("chat", "", "")
    /\ UNCHANGED <<memories, events, nextId, now, counters, config, embedded,
                   found, idsArg, prune, merge, episode>>

\* A request arrives: the turn comes to its first decay_importance call.
ChatEndpoint ==
    /\ chat.pc = "idle"
    /\ Idle
    /\ Turn([chat EXCEPT !.pc = "decay_user"])

\* The place after pc when the call made there has returned.
AfterReturn(pc) ==
    CASE pc = "decay_user" -> "decay_assistant"
      [] pc = "decay_assistant" -> "prune"
      [] pc = "prune" -> "embed"
      [] pc = "search_user" -> "search_assistant"
      [] pc = "search_assistant" -> "llm"
      [] pc = "extract" -> "extract"
      [] pc = "merge_user" -> "merge_assistant"
      [] pc = "merge_assistant" -> "returned"

\* The place after pc when the call made there has raised: add_memory is
\* called in a try inside the loop over the facts, the two merge_redundant
\* calls share one try, and no other call is in a try.
AfterRaise(pc) ==
    CASE pc = "extract" -> "extract"
      [] pc \in {"merge_user", "merge_assistant"} -> "returned"
      [] OTHER -> "raised"

\* The turn goes on after a call of the store.
ChatResume ==
    /\ chat.pc \in {"decay_user", "decay_assistant", "prune", "search_user",
                    "search_assistant", "extract", "merge_user",
                    "merge_assistant"}
    /\ Idle
    /\ lastOp.op \in Ended
    /\ Turn([chat EXCEPT
               !.pc = IF lastOp.op \in Raised THEN AfterRaise(chat.pc)
                      ELSE AfterReturn(chat.pc),
               !.ltm = IF chat.pc = "search_assistant" /\ lastOp.op \notin Raised
                       THEN TRUE ELSE @,
               !.cause = IF lastOp.op \in Raised /\ AfterRaise(chat.pc) = "raised"
                         THEN lastOp.op ELSE @])

\* _retrieve_ltm_context: the query is embedded in a try; without an
\* embedding the turn goes on with no long-term memory context.
ChatEmbed ==
    /\ chat.pc = "embed"
    /\ \E reply \in EmbedReplies :
          Turn([chat EXCEPT !.pc = IF reply.ok THEN "search_user" ELSE "llm",
                            !.query = IF reply.ok THEN reply.vec ELSE @])

\* _chat_once_with_history: the model answers, or OllamaError becomes an
\* HTTPException.
ChatReply ==
    /\ chat.pc = "llm"
    /\ \E ok \in BOOLEAN :
          Turn([chat EXCEPT !.pc = IF ok THEN "extract" ELSE "raised",
                            !.cause = IF ok THEN @ ELSE "OllamaError"])

\* _maybe_extract_and_store_memory: no fact is left to store.
ChatExtracted ==
    /\ chat.pc = "extract"
    /\ lastOp.op = "chat"
    /\ Turn([chat EXCEPT !.pc = "merge_user"])

\* The call of the store the turn has come to.
ChatCall(u) ==
    /\ lastOp.op = "chat"
    /\ \/ chat.pc = "decay_user" /\ DecayImportance(u, "user")
       \/ chat.pc = "decay_assistant" /\ DecayImportance(u, "assistant")
       \/ chat.pc \in {"decay_user", "decay_assistant"}
             /\ Fail("decay_importance:raised")
       \/ chat.pc = "prune" /\ PruneCaps(u)
       \/ chat.pc = "search_user" /\ Search(u, "user", chat.query, UserLimit)
       \/ chat.pc = "search_assistant"
             /\ Search(u, "assistant", chat.query, AssistantLimit)
       \/ chat.pc \in {"search_user", "search_assistant"}
             /\ Fail("search:raised")
       \/ chat.pc = "extract"
             /\ \E o \in OwnerTypes :
                   AddMemoryEmbed(u, o, NoEmbedding, {TagOrder[1]},
                                  Imp(ExtractedImportance))
       \/ chat.pc = "extract" /\ Fail("add_memory:raised")
       \/ chat.pc = "merge_user" /\ MergeRedundant(u, "user")
       \/ chat.pc = "merge_assistant" /\ MergeRedundant(u, "assistant")

\* ---------------------------------------------------------- specifications
DefaultCaps ==
    /\ total_cap_user = MaxEntries + 1
    /\ total_cap_assistant = MaxEntries + 1
    /\ per_tag_caps = [t \in Tags |-> MaxEntries + 1]

InitStore ==
    /\ memories = <<>>
    /\ events = <<>>
    /\ nextId = 1
    /\ now = 0
    /\ advances = 0
    /\ decays = 0
    /\ failures = 0
    /\ prune = IdlePrune
    /\ merge = IdleMerge
    /\ lastOp = NoCall
    /\ episode = NoEpisode
    /\ embedded = [arg |-> NoEmbedding, provider |-> "no"]
    /\ found = NoSearch
    /\ chat = NoTurn
    /\ idsArg = {}

\* Decay: entries of any importance a caller passes, aged by the clock.
DecayImportances == {Imp(-2), Imp(5), Imp(15)}
DecayDeltas == {1, DayTicks, 60 * DayTicks}

InitDecay == InitStore /\ DefaultCaps

NextDecay ==
    \/ \E o \in OwnerTypes, imp \in DecayImportances :
          nextId <= DecayEntries /\ AddMemory("u1", o, <<1, 0>>, {}, imp)
    \/ \E d \in DecayDeltas : Advance(d)
    \/ \E o \in OwnerTypes : DecayImportance("u1", o)

SpecDecay == InitDecay /\ [][NextDecay]_vars

\* A step that is a call of decay_importance.
DecayStep == decays' = decays + 1

\* C8: no decay_importance call increases an entry's importance, and after
\* the call no importance it has written is below 0.
C8_DecayMonotone ==
    [][DecayStep =>
          \A id \in DOMAIN memories :
              /\ memories'[id].importance <= memories[id].importance
              /\ memories'[id].importance # memories[id].importance
                    => memories'[id].importance >= 0]_vars

\* C9: a decay_importance call that follows a decay_importance call on the
\* same partition, with no other call and no time elapsed in between,
\* changes no row: importance and last_used_at stay as the first call left
\* them.
C9_DecayTwiceNoOp ==
    [][(/\ DecayStep
        /\ lastOp'.repeat) => memories' = memories]_vars

\* C10: every stored entry's importance lies in [0, 1].
C10_ImportanceInRange ==
    \A id \in DOMAIN memories :
        memories[id].importance >= 0 /\ memories[id].importance <= ImpOne

\* Cap eviction, one call at a time: entries of both owner types with any set
\* of tags, two importances and two ages.  The store is constructed with
\* total caps of 1..MaxCap, different for the two owner types, and per-tag
\* caps below MaxCap.
PruneImportances == {Imp(3), Imp(5)}

InitPrune ==
    /\ InitStore
    /\ total_cap_user \in 1..MaxCap
    /\ total_cap_assistant = MaxCap + 1 - total_cap_user
    /\ \E c \in 0..(MaxCap - 1) :
          per_tag_caps = [t \in Tags |->
                            IF t = TagOrder[1] THEN c ELSE MaxCap - 1]

NextPrune ==
    \/ \E o \in OwnerTypes, tags \in SUBSET Tags, imp \in PruneImportances :
          AddMemory("u1", o, <<1, 0>>, tags, imp)
    \/ advances < PruneAdvance /\ Advance(TicksPerSec)
    \/ Idle /\ PruneCaps("u1")
    \/ PruneQuery
    \/ PruneLog
    \/ PruneDelete

SpecPrune == InitPrune /\ [][NextPrune]_vars

\* Deduplication, one call at a time: entries of both owner types, with
\* embeddings of which some pairs are within the threshold of each other and
\* some are not, one of them of zero magnitude, and two importances.
MergeVectors == {<<4, 0>>, <<4, 1>>, <<2, 1>>, <<0, 0>>}
MergeImportances == {Imp(3), Imp(8)}

InitMerge == InitStore /\ DefaultCaps

NextMerge ==
    \/ \E o \in OwnerTypes, emb \in MergeVectors, imp \in MergeImportances :
          AddMemory("u1", o, emb, {}, imp)
    \/ \E o \in OwnerTypes : Idle /\ MergeRedundant("u1", o)
    \/ MergeList
    \/ MergeLog
    \/ MergeDelete

SpecMerge == InitMerge /\ [][NextMerge]_vars

\* The two maintenance passes in flight together on one store: every
\* interleaving of their store operations (each SELECT, INSERT and DELETE is
\* a transaction of its own; the code takes no lock).  The store is
\* constructed with every cap 1 and the entries are those of one partition.
ConcVectors == {<<4, 0>>, <<0, 1>>}
ConcImportances == {Imp(3), Imp(8)}

InitConc ==
    /\ InitStore
    /\ total_cap_user = 1
    /\ total_cap_assistant = 1
    /\ per_tag_caps = [t \in Tags |-> 1]

NextConc ==
    \/ \E emb \in ConcVectors, imp \in ConcImportances :
          AddMemory("u1", "user", emb, {TagOrder[1]}, imp)
    \/ PruneCaps("u1")
    \/ PruneQuery
    \/ PruneLog
    \/ PruneDelete
    \/ \E o \in OwnerTypes : MergeRedundant("u1", o)
    \/ MergeList
    \/ MergeLog
    \/ MergeDelete

SpecConc == InitConc /\ [][NextConc]_vars

\* One caller at a time, where any store operation of a pass may fail.
NextFail ==
    \/ \E emb \in ConcVectors, imp \in ConcImportances :
          AddMemory("u1", "user", emb, {TagOrder[1]}, imp)
    \/ Idle /\ PruneCaps("u1")
    \/ PruneQuery
    \/ PruneLog
    \/ PruneDelete
    \/ PruneFail
    \/ \E o \in OwnerTypes : Idle /\ MergeRedundant("u1", o)
    \/ MergeList
    \/ MergeLog
    \/ MergeDelete
    \/ MergeFail

SpecFail == InitConc /\ [][NextFail]_vars

\* The entries of user u1 and owner type o, and those of them carrying tag t.
Stored(o) == {id \in DOMAIN memories : memories[id].owner_type = o}
StoredTagged(o, t) == {id \in Stored(o) : t \in memories[id].tags}
TotalCap(o) == IF o = "user" THEN total_cap_user ELSE total_cap_assistant

\* C1: when prune_caps has returned, each owner type's partition holds at most
\* its total cap of entries and, for every configured tag, at most that tag's
\* cap of entries carrying the tag.
C1_CapsHoldAfterPrune ==
    lastOp.op = "prune_caps" =>
        \A o \in OwnerTypes :
            /\ Cardinality(Stored(o)) <= TotalCap(o)
            /\ \A t \in DOMAIN per_tag_caps :
                  Cardinality(StoredTagged(o, t)) <= per_tag_caps[t]

\* prune_caps has returned after a total-cap eviction and a per-tag eviction,
\* and an entry carrying two tags is among the survivors.
C1_Witness ==
    /\ lastOp.op = "prune_caps"
    /\ \E k \in 1..Len(events) : events[k].event_type = "prune_total"
    /\ \E k \in 1..Len(events) : events[k].event_type = "prune_tag"
    /\ \E id \in DOMAIN memories : Cardinality(memories[id].tags) = 2

\* The set a cap check counts, and its cap.
CheckSet(c) ==
    IF c.kind = "total" THEN Stored(c.owner) ELSE StoredTagged(c.owner, c.tag)
CapOf(c) == IF c.kind = "total" THEN TotalCap(c.owner) ELSE per_tag_caps[c.tag]

\* Importance ascending, then last_used_at ascending.
EvictedFirst(a, b) ==
    \/ memories[a].importance < memories[b].importance
    \/ /\ memories[a].importance = memories[b].importance
       /\ memories[a].last_used_at <= memories[b].last_used_at

\* C2: a cap check whose set has n > cap entries goes on to evict, its delete
\* removes exactly n - cap entries, all of the checked set, each of them at or
\* before every retained entry of the set in the order (importance, then
\* last_used_at), and leaves every other row as it was; with total cap 1 and
\* two entries the survivor has the higher importance or, on a tie, a
\* last_used_at at least as high.
C2_EvictionOrder ==
    [][/\ (prune.pc = "query" /\ prune' # prune) =>
              LET c == Checks[prune.idx]
              IN  (Cardinality(CheckSet(c)) > CapOf(c)) <=> (prune'.pc = "log")
       /\ (prune.pc = "delete" /\ prune'.pc # "delete") =>
              LET c == Checks[prune.idx]
                  S == CheckSet(c)
                  removed == DOMAIN memories \ DOMAIN memories'
              IN  /\ Cardinality(S) > CapOf(c)
                  /\ removed \subseteq S
                  /\ Cardinality(removed) = Cardinality(S) - CapOf(c)
                  /\ \A r \in removed : \A k \in S \ removed : EvictedFirst(r, k)
                  /\ \A k \in DOMAIN memories' : memories'[k] = memories[k]
                  /\ (c.kind = "total" /\ CapOf(c) = 1 /\ Cardinality(S) = 2) =>
                        \A r \in removed : \A k \in S \ removed :
                            \/ memories[k].importance > memories[r].importance
                            \/ /\ memories[k].importance = memories[r].importance
                               /\ memories[k].last_used_at >= memories[r].last_used_at
      ]_vars

\* A per-tag eviction has just been carried out: its delete removed the
\* entries it logged and retained another entry of the same checked set.
C2_Witness ==
    \E k \in 1..Len(events) :
        /\ events[k].event_type = "prune_tag"
        /\ Range(events[k].dropped) \cap DOMAIN memories = {}
        /\ prune.pc = "query"
        /\ prune.idx > 2
        /\ Checks[prune.idx - 1].tag = events[k].tag
        /\ Checks[prune.idx - 1].owner = events[k].owner_type
        /\ StoredTagged(events[k].owner_type, events[k].tag) # {}

\* Cosine similarity of two embeddings is defined and at least the threshold.
NearIdentical(a, b) ==
    LET dot == a[1] * b[1] + a[2] * b[2]
        na == a[1] * a[1] + a[2] * a[2]
        nb == b[1] * b[1] + b[2] * b[2]
    IN  /\ na # 0
        /\ nb # 0
        /\ dot >= 0
        /\ ThresholdDen * ThresholdDen * dot * dot
              >= ThresholdNum * ThresholdNum * na * nb

\* The step with which a merge_redundant call that has listed two or more
\* entries returns.
MergeReturns == merge.pc = "scan" /\ merge'.pc = "idle"

\* C3: when merge_redundant runs on a partition holding exactly two entries
\* whose cosine similarity is at least the threshold, then at its return
\* exactly one of the two remains, unchanged; it is the one with the higher
\* importance, or the first-listed one on a tie; and the call has appended
\* exactly one event, a `merged` event whose memory_id is the survivor and
\* whose payload names the dropped id and the similarity of the two.
C3_MergeOfTwo ==
    [][MergeReturns =>
          LET P == Stored(merge.owner)
              first == merge.memories[1].id
              second == merge.memories[2].id
              survivor == IF memories[first].importance >= memories[second].importance
                          THEN first ELSE second
              other == IF survivor = first THEN second ELSE first
              ea == memories[first].embedding
              eb == memories[second].embedding
          IN  (/\ Cardinality(P) = 2
               /\ NearIdentical(ea, eb)) =>
                  /\ {id \in DOMAIN memories' :
                         memories'[id].owner_type = merge.owner} = {survivor}
                  /\ memories'[survivor] = memories[survivor]
                  /\ events' = events
                  /\ Len(events) = episode.ev0 + 1
                  /\ events[Len(events)] =
                        [user_id |-> merge.user, owner_type |-> merge.owner,
                         memory_id |-> survivor, event_type |-> "merged",
                         dropped |-> <<other>>, tag |-> "",
                         similarity |->
                            <<ea[1] * eb[1] + ea[2] * eb[2],
                              (ea[1] * ea[1] + ea[2] * ea[2])
                                 * (eb[1] * eb[1] + eb[2] * eb[2])>>]
      ]_vars

\* merge_redundant has returned from a partition that held the only two
\* entries ever added: one `merged` event, its survivor stored, the other gone.
C3_Witness ==
    /\ lastOp.op = "merge_redundant"
    /\ nextId = 3
    /\ Len(events) = 1
    /\ events[1].event_type = "merged"
    /\ Stored(events[1].owner_type) = {events[1].memory_id}
    /\ events[1].dropped[1] \notin DOMAIN memories

\* C4: when a merge_redundant call returns, no two entries left in its
\* partition have cosine similarity at or above the threshold; and a
\* merge_redundant call made right after a returned merge_redundant call on
\* the same partition deletes nothing and appends no event.
C4_MergeIdempotent ==
    [][/\ (merge.pc # "idle" /\ merge'.pc = "idle") =>
              \A a, b \in {id \in DOMAIN memories' :
                              memories'[id].owner_type = merge.owner} :
                  a # b => ~NearIdentical(memories'[a].embedding,
                                          memories'[b].embedding)
       /\ (merge.pc # "idle" /\ lastOp.repeat) =>
              memories' = memories /\ events' = events
      ]_vars

\* A second merge_redundant call has returned right after a first one that
\* merged entries of the partition, which still holds two or more entries.
C4_Witness ==
    /\ lastOp.op = "merge_redundant"
    /\ lastOp.repeat
    /\ \E k \in 1..Len(events) : events[k].owner_type = lastOp.owner
    /\ Cardinality(Stored(lastOp.owner)) >= 2

\* C5: in a merge_redundant pass a merge decision is taken for a pair only
\* when neither member is already marked for deletion, and the pass emits
\* exactly one `merged` event per entry it deletes.
C5_DecisionsOnUnmarked ==
    [][/\ (merge.pc = "scan" /\ events' # events) =>
              LET e == events'[Len(events')]
              IN  /\ e.memory_id \notin merge.to_delete
                  /\ e.dropped[1] \notin merge.to_delete
       /\ MergeReturns =>
              Len(events) - episode.ev0
                 = Cardinality(DOMAIN memories \ DOMAIN memories')
      ]_vars

\* C6: when prune_caps and merge_redundant have run interleaved on the same
\* partition and both have finished, the id sets the two passes deleted do
\* not overlap, and no `merged` event logged during the run names as its
\* survivor an entry that is no longer stored.
C6_NoRaceOnDeletes ==
    (episode.raced /\ Idle) =>
        /\ episode.pruned \cap episode.merged = {}
        /\ \A k \in (episode.ev0 + 1)..Len(events) :
               events[k].event_type = "merged" =>
                   events[k].memory_id \in DOMAIN memories

\* The ids some event of the log names as dropped.
LoggedDropped == UNION {Range(events[k].dropped) : k \in 1..Len(events)}

\* C7: every entry that has been removed from the store is named as dropped
\* by an event already in the log, whether or not the removing pass went on
\* to return: no state has an entry deleted but not logged.
C7_LogThenDelete ==
    \A id \in 1..(nextId - 1) :
        id \notin DOMAIN memories => id \in LoggedDropped

\* A pass has failed after logging its intent and before deleting: an entry
\* named as dropped is still stored, while an earlier pass's entry is gone.
C7_Witness ==
    /\ lastOp.op \in {"prune_caps:raised", "merge_redundant:raised"}
    /\ LoggedDropped \cap DOMAIN memories # {}
    /\ \E id \in 1..(nextId - 1) : id \notin DOMAIN memories

\* Retrieval: entries of owner type user with four embeddings (one of zero
\* norm, one opposed to the queries), next to entries of owner type
\* assistant, searched with two query vectors (one of zero
\* norm) and every limit up to MaxLimit, the clock advancing in between.
SearchEntries ==
    {[embedding |-> <<4, 0>>, importance |-> Imp(2)],
     [embedding |-> <<4, 0>>, importance |-> Imp(8)],
     [embedding |-> <<3, 4>>, importance |-> Imp(8)],
     [embedding |-> <<-2, 0>>, importance |-> Imp(2)],
     [embedding |-> <<0, 0>>, importance |-> Imp(8)]}
SearchQueries == {<<1, 0>>, <<0, 0>>}

InitSearch == InitStore /\ DefaultCaps

NextSearch ==
    \/ \E e \in SearchEntries :
          AddMemory("u1", "user", e.embedding, {}, e.importance)
    \/ AddMemory("u1", "assistant", <<4, 0>>, {}, Imp(8))
    \/ advances < PruneAdvance /\ Advance(TicksPerSec)
    \/ \E o \in OwnerTypes, q \in SearchQueries, limit \in 0..MaxLimit :
          Search("u1", o, q, limit)

SpecSearch == InitSearch /\ [][NextSearch]_vars

\* A step that is a call of search.
SearchStep == lastOp'.op = "search" /\ <<memories, found, lastOp>>' # <<memories, found, lastOp>>

\* The entries of the searched partition that search scores.
Scored ==
    IF Norm2(found.query) = 0 THEN {}
    ELSE {id \in Partition(memories, found.user, found.owner) :
             Norm2(memories[id].embedding) # 0}

\* C11: search returns at most limit entries, each once and each of the
\* requested partition, in non-increasing order of score, and no scored
\* entry it leaves out has a strictly higher score than one it returns.
C11_SearchRanked ==
    lastOp.op = "search" =>
        LET ids == found.ids
        IN  /\ Len(ids) <= found.limit
            /\ \A a, b \in 1..Len(ids) : a # b => ids[a] # ids[b]
            /\ Range(ids) \subseteq Scored
            /\ \A a, b \in 1..Len(ids) :
                   a < b => ScoreGE(found.query, memories[ids[a]], memories[ids[b]])
            /\ \A id \in Scored \ Range(ids), k \in 1..Len(ids) :
                   ScoreGE(found.query, memories[ids[k]], memories[id])

\* search has returned two entries of strictly different score and left out
\* a scored entry of the partition.
C11_Witness ==
    /\ lastOp.op = "search"
    /\ Len(found.ids) = 2
    /\ ~ScoreGE(found.query, memories[found.ids[2]], memories[found.ids[1]])
    /\ Scored \ Range(found.ids) # {}

\* C12: a search call that follows a search call with the same arguments,
\* with no other call in between, returns the same ids in the same order.
C12_SearchDeterministic ==
    [][(SearchStep /\ found'.repeat) => found'.ids = found.ids]_vars

\* C13: a search call sets last_used_at of exactly the entries it returns to
\* the store's current timestamp and changes nothing else: no other column,
\* no other entry, no event, and nothing at all when it returns no entry.
C13_SearchTouchesReturned ==
    [][SearchStep =>
          /\ DOMAIN memories' = DOMAIN memories
          /\ \A id \in DOMAIN memories :
                 memories'[id] =
                    IF id \in Range(found'.ids)
                    THEN [memories[id] EXCEPT
                            !.last_used_at = CurrentTimestamp(now)]
                    ELSE memories[id]
          /\ events' = events
          /\ nextId' = nextId
          /\ found'.ids = <<>> => memories' = memories
      ]_vars

\* search has returned an entry, whose last_used_at it has moved on from
\* created_at, and has left another entry of the partition as it was.
C13_Witness ==
    /\ lastOp.op = "search"
    /\ \E id \in Range(found.ids) :
           /\ memories[id].last_used_at = CurrentTimestamp(now)
           /\ memories[id].last_used_at # memories[id].created_at
    /\ \E id \in Partition(memories, found.user, found.owner) \ Range(found.ids) :
           memories[id].last_used_at # CurrentTimestamp(now)

\* Insertion: add_memory called without an embedding, with an empty vector,
\* with an all-zero vector and with another vector, for both owner types,
\* while the Embedding Provider may fail.
AddEmbeddings == {NoEmbedding, Given(<<>>), Given(<<0, 0>>), Given(<<1, 0>>)}

InitAdd == InitStore /\ DefaultCaps

NextAdd ==
    \E o \in OwnerTypes, embedding \in AddEmbeddings :
        AddMemoryEmbed("u1", o, embedding, {}, Imp(5))

SpecAdd == InitAdd /\ [][NextAdd]_vars

\* A step that is a call of add_memory.
AddStep == lastOp'.op \in {"add_memory", "add_memory:raised"} /\ vars' # vars

\* C14: an add_memory call in which the Embedding Provider raises ends by
\* raising and leaves the store as it was: no row and no event is written
\* and no id is used up.
C14_EmbedFailureWritesNothing ==
    [][(AddStep /\ embedded'.provider = "raised") =>
          /\ lastOp'.op = "add_memory:raised"
          /\ memories' = memories
          /\ events' = events
          /\ nextId' = nextId]_vars

\* add_memory has raised on a failing provider in a store that holds entries.
C14_Witness ==
    /\ lastOp.op = "add_memory:raised"
    /\ embedded.provider = "raised"
    /\ DOMAIN memories # {}

\* C15: an add_memory call given a vector, whichever it is, does not invoke
\* the Embedding Provider, does not raise, and stores the vector given.
C15_PrecomputedBypassesProvider ==
    [][(AddStep /\ embedded'.arg.given) =>
          /\ embedded'.provider = "no"
          /\ lastOp'.op = "add_memory"
          /\ DOMAIN memories' = DOMAIN memories \cup {nextId}
          /\ memories'[nextId].embedding = embedded'.arg.vec]_vars

\* Scoping: near-identical entries of two users and both owner types, every
\* cap 1; the maintenance passes are called, one at a time, for the first
\* user only, after the clock has moved on by a day.
ScopeUsers == {"u1", "u2"}
ScopeUser == "u1"
ScopeImportances == {Imp(3), Imp(8)}

NextScope ==
    \/ \E u \in ScopeUsers, o \in OwnerTypes, imp \in ScopeImportances :
          AddMemory(u, o, <<4, 0>>, {TagOrder[1]}, imp)
    \/ advances < PruneAdvance /\ Advance(DayTicks)
    \/ \E o \in OwnerTypes : DecayImportance(ScopeUser, o)
    \/ Idle /\ PruneCaps(ScopeUser)
    \/ PruneQuery
    \/ PruneLog
    \/ PruneDelete
    \/ \E o \in OwnerTypes : Idle /\ MergeRedundant(ScopeUser, o)
    \/ MergeList
    \/ MergeLog
    \/ MergeDelete

SpecScope == InitConc /\ [][NextScope]_vars

\* The entries that a step leaves as they are.
Kept == {id \in DOMAIN memories :
            id \in DOMAIN memories' /\ memories'[id] = memories[id]}

\* The entries an event names.
Named(e) == Range(e.dropped) \cup (IF e.memory_id = None THEN {} ELSE {e.memory_id})

\* C16: a step of decay_importance or merge_redundant changes or deletes
\* entries of the called (user_id, owner_type) partition only, a step of
\* prune_caps entries of the called user only, and an event written by a
\* step carries the user and owner type of every entry it names.
C16_PartitionScoped ==
    [][/\ DecayStep =>
              DOMAIN memories \ Kept
                 \subseteq Partition(memories, ScopeUser, lastOp'.owner)
       /\ merge.pc # "idle" =>
              DOMAIN memories \ Kept
                 \subseteq Partition(memories, merge.user, merge.owner)
       /\ prune.pc # "idle" =>
              \A id \in DOMAIN memories \ Kept :
                  memories[id].user_id = prune.user
       /\ events' # events =>
              LET e == events'[Len(events')]
              IN  \A id \in Named(e) \cap DOMAIN memories :
                      /\ memories[id].user_id = e.user_id
                      /\ memories[id].owner_type = e.owner_type
      ]_vars

\* The passes have decayed and deleted entries of the first user while the
\* other user holds an entry of the same owner type, near-identical to an
\* entry the first user still holds.
C16_Witness ==
    /\ Idle
    /\ decays > 0
    /\ events # <<>>
    /\ \E a, b \in DOMAIN memories :
           /\ memories[a].user_id = ScopeUser
           /\ memories[b].user_id # ScopeUser
           /\ memories[a].owner_type = memories[b].owner_type
           /\ memories[a].importance < memories[b].importance

\* Every operation on one partition, one call at a time: near-identical
\* entries under caps of 1, the clock moving on by a day.
NextLog ==
    \/ AddMemory(ScopeUser, "user", <<4, 0>>, {TagOrder[1]}, Imp(5))
    \/ advances < PruneAdvance /\ Advance(DayTicks)
    \/ DecayImportance(ScopeUser, "user")
    \/ \E limit \in 0..MaxLimit : Search(ScopeUser, "user", <<1, 0>>, limit)
    \/ Idle /\ PruneCaps(ScopeUser)
    \/ PruneQuery
    \/ PruneLog
    \/ PruneDelete
    \/ Idle /\ MergeRedundant(ScopeUser, "user")
    \/ MergeList
    \/ MergeLog
    \/ MergeDelete

SpecLog == InitConc /\ [][NextLog]_vars

\* C17: a step leaves every record of the event log as it is and appends at
\* most one; a record is appended only by prune_caps, with event_type
\* prune_total or prune_tag and no memory_id, or by merge_redundant, with
\* event_type merged; add_memory, search and decay_importance append none.
C17_EventLogAppendOnly ==
    [][/\ Len(events') \in {Len(events), Len(events) + 1}
       /\ SubSeq(events', 1, Len(events)) = events
       /\ events' # events =>
              LET e == events'[Len(events')]
              IN  \/ /\ prune.pc # "idle"
                     /\ e.event_type \in {"prune_total", "prune_tag"}
                     /\ e.memory_id = None
                  \/ /\ merge.pc # "idle"
                     /\ e.event_type = "merged"
       /\ (AddStep \/ SearchStep \/ DecayStep) => events' = events
      ]_vars

\* search has returned an entry from a store whose log holds a record of
\* prune_caps followed by a record of merge_redundant.
C17_Witness ==
    /\ lastOp.op = "search"
    /\ found.ids # <<>>
    /\ \E j, k \in 1..Len(events) :
           /\ j < k
           /\ events[j].event_type \in {"prune_total", "prune_tag"}
           /\ events[k].event_type = "merged"

\* A chat turn: entries are added and the clock moves on by a day before
\* the request arrives; during the turn any call of the store may fail and
\* the Embedding Provider and the language model may fail.
NextChat ==
    \/ \E o \in OwnerTypes :
          chat.pc = "idle" /\ AddMemory("u1", o, <<3, 4>>, {TagOrder[1]}, Imp(5))
    \/ chat.pc = "idle" /\ advances < PruneAdvance /\ Advance(DayTicks)
    \/ ChatEndpoint
    \/ ChatCall("u1")
    \/ ChatResume
    \/ ChatEmbed
    \/ ChatReply
    \/ ChatExtracted
    \/ PruneQuery
    \/ PruneLog
    \/ PruneDelete
    \/ PruneFail
    \/ MergeList
    \/ MergeLog
    \/ MergeDelete
    \/ MergeFail

SpecChat == InitConc /\ [][NextChat]_vars

\* C18: no chat turn is aborted by a failure that a call of the long-term
\* memory store has raised.
C18_TurnSurvivesStoreFailure ==
    ~(chat.pc = "raised" /\ chat.cause \in Raised)

\* update_last_used and _delete_ids called with any set of ids, stored,
\* deleted or never assigned, on entries added while the clock moves on.
IdSets == SUBSET (1..MaxEntries)

NextIds ==
    \/ AddMemory("u1", "user", <<1, 0>>, {}, Imp(5))
    \/ advances < PruneAdvance /\ Advance(TicksPerSec)
    \/ \E ids \in IdSets : UpdateLastUsedCall(ids)
    \/ \E ids \in IdSets : DeleteIdsCall(ids)

InitIds == InitStore /\ DefaultCaps

SpecIds == InitIds /\ [][NextIds]_vars

\* A step that is a call of update_last_used, of _delete_ids.
UpdateStep == lastOp'.op = "update_last_used" /\ vars' # vars
DeleteStep == lastOp'.op = "_delete_ids" /\ vars' # vars

\* C19: update_last_used sets last_used_at of the stored entries among its
\* ids, changes nothing else and nothing at all for an empty list;
\* _delete_ids removes the stored entries among its ids and leaves the
\* others; an id that is not stored makes neither fail; and _delete_ids
\* called again with the same ids changes nothing.
C19_MissingIdsAreNoOps ==
    [][/\ UpdateStep =>
              /\ DOMAIN memories' = DOMAIN memories
              /\ \A id \in DOMAIN memories :
                     memories'[id] =
                        IF id \in idsArg'
                        THEN [memories[id] EXCEPT
                                !.last_used_at = CurrentTimestamp(now)]
                        ELSE memories[id]
              /\ idsArg' = {} => memories' = memories
       /\ DeleteStep =>
              /\ DOMAIN memories' = DOMAIN memories \ idsArg'
              /\ \A id \in DOMAIN memories' : memories'[id] = memories[id]
              /\ (lastOp'.repeat /\ idsArg' = idsArg) => memories' = memories
      ]_vars

\* _delete_ids has been called with an id that no entry has and an id
\* whose entry is gone, and has left another entry in the store.
C19_Witness ==
    /\ lastOp.op = "_delete_ids"
    /\ \E a, b \in idsArg :
           /\ a < nextId
           /\ a \notin DOMAIN memories
           /\ b >= nextId
    /\ DOMAIN memories # {}

\* C20: add_memory never assigns an id that an entry has had before: the id
\* of a new row is neither the id of a stored entry nor an id that an event
\* names as dropped.
C20_IdNeverReused ==
    [][\A id \in DOMAIN memories' \ DOMAIN memories :
          /\ id \notin LoggedDropped
          /\ \A k \in 1..Len(events) : events[k].memory_id # id]_vars

\* add_memory has returned the id of a new entry after prune_caps or
\* merge_redundant had deleted the entry of the largest id assigned till then.
C20_Witness ==
    /\ lastOp.op = "add_memory"
    /\ nextId - 1 \in DOMAIN memories
    /\ nextId > 2
    /\ nextId - 2 \in LoggedDropped \ DOMAIN memories

\* The `merged` events of the merge_redundant call in flight.
MergedEvents == {k \in (episode.ev0 + 1)..Len(events) : events[k].event_type = "merged"}

\* C21: when a merge_redundant call that runs alone returns, the surviving
\* memory_id of every `merged` event it has written is still stored after
\* its batch delete.
C21_SurvivorSurvives ==
    [][MergeReturns =>
          \A k \in MergedEvents : events[k].memory_id \in DOMAIN memories']_vars

\* C22: every entry a merge_redundant call deletes has cosine similarity at
\* or above the threshold with some entry of the partition that the call
\* leaves stored.
C22_DeletedNearSurvivor ==
    [][MergeReturns =>
          \A d \in DOMAIN memories \ DOMAIN memories' :
              \E s \in Partition(memories', merge.user, merge.owner) :
                  NearIdentical(memories[d].embedding, memories[s].embedding)]_vars

\* C23: a decay_importance call computes for every entry of its partition
\* target = max(0, importance - decay_per_day * days) with
\* days = max(0, now - last_used_at); an entry whose target differs from its
\* importance gets importance = target and last_used_at = the store's
\* current timestamp in one update, an entry whose target equals its
\* importance is not written and keeps its last_used_at, and nothing else
\* in the table changes.
C23_DecayComputes ==
    [][DecayStep =>
          /\ DOMAIN memories' = DOMAIN memories
          /\ \A id \in DOMAIN memories :
                LET row == memories[id]
                    called == row.user_id = "u1" /\ row.owner_type = lastOp'.owner
                    age == now - row.last_used_at * TicksPerSec
                    ticks == IF age > 0 THEN age ELSE 0
                    loss == DecayPerTick * ticks
                    target == IF row.importance > loss
                              THEN row.importance - loss ELSE 0
                IN  memories'[id] =
                       IF called /\ target # row.importance
                       THEN [row EXCEPT !.importance = target,
                                        !.last_used_at = now \div TicksPerSec]
                       ELSE row]_vars

\* decay_importance has returned from a partition in which it has written
\* one entry, still above 0, and has passed over another whose importance
\* was 0 already and whose last_used_at lies in the past.
C23_Witness ==
    /\ lastOp.op = "decay_importance"
    /\ \E a, b \in Partition(memories, "u1", lastOp.owner) :
           /\ memories[a].importance = 0
           /\ ParseTs(memories[a].last_used_at) < now
           /\ memories[b].importance > 0
           /\ memories[b].importance \notin DecayImportances
           /\ memories[b].last_used_at = CurrentTimestamp(now)
           /\ memories[b].last_used_at # memories[b].created_at

\* The ids named as dropped by the events of the pass last called.
DroppedByPass ==
    UNION {Range(events[k].dropped) : k \in (episode.ev0 + 1)..Len(events)}

\* C24: when a prune_caps or merge_redundant call has failed on one of its
\* store operations, every id named as dropped in an event the failed call
\* wrote has been deleted.
C24_FailedPassLoggedOnlyDeletes ==
    lastOp.op \in {"prune_caps:raised", "merge_redundant:raised"} =>
        DroppedByPass \cap DOMAIN memories = {}

\* C25: when a prune_caps or merge_redundant call has failed after writing
\* an event and before its delete, and the same pass is called again with
\* nothing in between and returns, every id that the failed call's events
\* name as dropped has been deleted.
C25_RetryHeals ==
    lastOp.op \in {"prune_caps", "merge_redundant"} =>
        episode.orphans \cap DOMAIN memories = {}

\* Ranking by importance: entries of one partition whose embeddings are
\* along the query, at right angles to it and opposed to it, each with a low
\* and a high importance, searched with every limit up to MaxLimit.
BoostEntries ==
    {[embedding |-> emb, importance |-> imp] :
        emb \in {<<4, 0>>, <<0, 3>>, <<-2, 0>>}, imp \in {Imp(2), Imp(8)}}
BoostQuery == <<1, 0>>

InitBoost == InitStore /\ DefaultCaps

NextBoost ==
    \/ \E e \in BoostEntries :
          AddMemory("u1", "user", e.embedding, {}, e.importance)
    \/ \E limit \in 0..MaxLimit : Search("u1", "user", BoostQuery, limit)

SpecBoost == InitBoost /\ [][NextBoost]_vars

\* Entries a and b of non-zero norm have the same cosine similarity to q.
SameSim(q, a, b) ==
    LET da == q[1] * memories[a].embedding[1] + q[2] * memories[a].embedding[2]
        db == q[1] * memories[b].embedding[1] + q[2] * memories[b].embedding[2]
    IN  /\ (da > 0) = (db > 0)
        /\ (da < 0) = (db < 0)
        /\ da * da * Norm2(memories[b].embedding)
              = db * db * Norm2(memories[a].embedding)

\* The last search has ranked a below b: it has returned b and either left
\* a out or returned a after b.
RankedBelow(a, b) ==
    \E k \in 1..Len(found.ids) :
        /\ found.ids[k] = b
        /\ \A j \in 1..k : found.ids[j] # a

\* The cosine similarity of entry id to the query of the last search is 0,
\* is above 0.
ZeroSim(id) ==
    found.query[1] * memories[id].embedding[1]
       + found.query[2] * memories[id].embedding[2] = 0
PositiveSim(id) ==
    found.query[1] * memories[id].embedding[1]
       + found.query[2] * memories[id].embedding[2] > 0

\* C26, as claimed: of two scored entries with the same cosine similarity to
\* the query, positive, zero or negative, search never ranks the one with
\* the higher importance below the other, and an entry of similarity 0 has
\* score 0.
C26_BoostRanksAnySimilarity ==
    lastOp.op = "search" =>
        /\ \A a, b \in Scored :
               (/\ SameSim(found.query, a, b)
                /\ memories[a].importance > memories[b].importance)
                  => ~RankedBelow(a, b)
        /\ \A id \in Scored : ZeroSim(id) => ScoreNum(found.query, memories[id]) = 0

\* C26, amended: of two scored entries with the same positive cosine
\* similarity to the query, search never ranks the one with the higher
\* importance below the other, and an entry of similarity 0 has score 0.
C26_BoostRanksPositive ==
    lastOp.op = "search" =>
        /\ \A a, b \in Scored :
               (/\ SameSim(found.query, a, b)
                /\ PositiveSim(a)
                /\ memories[a].importance > memories[b].importance)
                  => ~RankedBelow(a, b)
        /\ \A id \in Scored : ZeroSim(id) => ScoreNum(found.query, memories[id]) = 0

\* search has returned an entry and left out an entry added before it that
\* has the same positive similarity and a lower importance, next to an
\* entry of similarity 0.
C26_Witness ==
    /\ lastOp.op = "search"
    /\ \E a \in Range(found.ids), b \in Scored \ Range(found.ids) :
           /\ b < a
           /\ SameSim(found.query, a, b)
           /\ PositiveSim(a)
           /\ memories[a].importance > memories[b].importance
    /\ \E id \in Scored : ZeroSim(id)

\* Vectors of zero magnitude: identical entries of one partition, some of
\* them with an all-zero embedding, searched with a query that may be
\* all-zero and deduplicated, the clock moving on in between.
ZeroVectors == {<<0, 0>>, <<4, 0>>}

InitZero == InitStore /\ DefaultCaps

NextZero ==
    \/ \E emb \in ZeroVectors : AddMemory("u1", "user", emb, {}, Imp(5))
    \/ advances < PruneAdvance /\ Advance(TicksPerSec)
    \/ \E q \in ZeroVectors, limit \in 0..MaxLimit : Search("u1", "user", q, limit)
    \/ Idle /\ MergeRedundant("u1", "user")
    \/ MergeList
    \/ MergeLog
    \/ MergeDelete

SpecZero == InitZero /\ [][NextZero]_vars

\* The embedding of entry id has zero magnitude.
ZeroNorm(id) == memories[id].embedding[1] = 0 /\ memories[id].embedding[2] = 0

\* C27: search returns and refreshes no entry whose embedding has zero
\* magnitude; a search with a query of zero magnitude returns nothing and
\* refreshes nothing; and merge_redundant neither logs a merge of a pair of
\* which a member has an embedding of zero magnitude nor deletes such an
\* entry.
C27_ZeroMagnitudeSkipped ==
    [][/\ SearchStep =>
              /\ \A k \in 1..Len(found'.ids) : ~ZeroNorm(found'.ids[k])
              /\ \A id \in DOMAIN memories : ZeroNorm(id) => memories'[id] = memories[id]
              /\ (found'.query[1] = 0 /\ found'.query[2] = 0) =>
                    found'.ids = <<>> /\ memories' = memories
       /\ (merge.pc # "idle" /\ events' # events) =>
              LET e == events'[Len(events')]
              IN  ~ZeroNorm(e.memory_id) /\ ~ZeroNorm(e.dropped[1])
       /\ merge.pc # "idle" =>
              \A id \in DOMAIN memories \ DOMAIN memories' : ~ZeroNorm(id)
      ]_vars

\* search has returned fewer entries than its limit from a partition that
\* holds an entry of zero magnitude, which was there already when
\* merge_redundant merged two other entries.
C27_Witness ==
    /\ lastOp.op = "search"
    /\ found.ids # <<>>
    /\ Len(found.ids) < found.limit
    /\ events # <<>>
    /\ \E id \in Partition(memories, "u1", "user") :
           ZeroNorm(id) /\ id < events[1].dropped[1]

\* C28: a prune_caps call made right after a returned prune_caps call, with
\* nothing in between, deletes no entry and appends no event; and in any
\* prune_caps call a cap check whose set is at or below its cap goes on to
\* the next check without logging or deleting.
C28_PruneIdempotent ==
    [][/\ (prune.pc # "idle" /\ lastOp.repeat) =>
              memories' = memories /\ events' = events
       /\ (prune.pc = "query" /\ prune' # prune) =>
              LET c == Checks[prune.idx]
              IN  Cardinality(CheckSet(c)) <= CapOf(c) =>
                     /\ prune'.pc \in {"query", "idle"}
                     /\ memories' = memories
                     /\ events' = events
      ]_vars

\* A second prune_caps call has returned right after a first one that
\* evicted entries and left a partition holding exactly its total cap.
C28_Witness ==
    /\ lastOp.op = "prune_caps"
    /\ lastOp.repeat
    /\ events # <<>>
    /\ \E o \in OwnerTypes : Cardinality(Stored(o)) = TotalCap(o)

\* The columns of an entry that no operation writes after the INSERT.
Fixed(row) ==
    <<row.user_id, row.owner_type, row.content, row.embedding, row.tags,
      row.plasticity, row.created_at, row.metadata>>

\* C29: a step of any operation leaves id, user_id, owner_type, content,
\* embedding, tags, plasticity, created_at and metadata of every stored entry
\* as they are; importance changes only in a decay_importance step and
\* last_used_at only in a decay_importance or search step; entries leave the
\* store only in a delete of prune_caps or merge_redundant, never in a
\* decay_importance step; and merge_redundant changes no field of an entry
\* it leaves stored.
C29_LifecycleFrame ==
    [][/\ \A id \in DOMAIN memories \cap DOMAIN memories' :
              /\ Fixed(memories'[id]) = Fixed(memories[id])
              /\ memories'[id].importance # memories[id].importance => DecayStep
              /\ memories'[id].last_used_at # memories[id].last_used_at
                    => DecayStep \/ SearchStep
       /\ ~(DOMAIN memories \subseteq DOMAIN memories')
              => prune.pc = "delete" \/ merge.pc = "scan"
       /\ DecayStep => DOMAIN memories' = DOMAIN memories
       /\ merge.pc # "idle" =>
              \A id \in DOMAIN memories \cap DOMAIN memories' :
                  memories'[id] = memories[id]
      ]_vars

\* decay_importance has lowered the importance of an entry next to an entry
\* that a search had refreshed, in a store from which a pass has deleted.
C29_Witness ==
    /\ lastOp.op = "decay_importance"
    /\ events # <<>>
    /\ \E a, b \in DOMAIN memories :
           /\ memories[a].importance < Imp(5)
           /\ memories[b].importance = Imp(5)
           /\ memories[b].last_used_at # memories[b].created_at

\* Aging: entries of one importance in both partitions, of which only the
\* assistant's is ever searched; the clock moves on by a tick or by a day
\* between the calls.
AgingImportance == Imp(5)
AgingDeltas == {1, DayTicks}

InitAging == InitStore /\ DefaultCaps

NextAging ==
    \/ \E o \in OwnerTypes :
          nextId <= DecayEntries /\ AddMemory("u1", o, <<1, 0>>, {}, AgingImportance)
    \/ \E d \in AgingDeltas : Advance(d)
    \/ \E o \in OwnerTypes : DecayImportance("u1", o)
    \/ \E limit \in 1..MaxLimit : Search("u1", "assistant", <<1, 0>>, limit)

SpecAging == InitAging /\ [][NextAging]_vars

\* What one decay_importance call at time t leaves of the importance an
\* entry was inserted with, when nothing has touched the entry since.
SingleDecay(id, t) ==
    LET age == t - memories[id].created_at * TicksPerSec
        loss == DecayPerTick * (IF age > 0 THEN age ELSE 0)
    IN  IF AgingImportance > loss THEN AgingImportance - loss ELSE 0

\* C30: after any number of decay_importance calls, the last of them at time
\* t2, an entry that no search has returned has the importance that a
\* single call at t2 would have given it,
\* max(0, importance - decay_per_day * (t2 - last_used_at)) of the values it
\* was inserted with; and a decay_importance call that follows a search
\* takes nothing from the importance of the entries the search has just
\* returned: the interval accrued before the search is discarded.
C30_DecayChargesIntervalOnce ==
    [][DecayStep =>
          /\ lastOp'.owner = "user" =>
                \A id \in Partition(memories, "u1", "user") :
                    memories'[id].importance = SingleDecay(id, now)
          /\ (lastOp.op = "search" /\ lastOp'.owner = found.owner) =>
                \A id \in Range(found.ids) :
                    memories'[id].importance = memories[id].importance
      ]_vars

====
